---------------------------- MODULE Spec2Model ----------------------------
(***************************************************************************)
(* A model of redleavesscan.py, the Volatility plugin that detects the     *)
(* RedLeaves family of implants in process memory and decodes their        *)
(* configuration record.                                                   *)
(*                                                                         *)
(* Byte strings (python 2 str) are sequences of integers 0..255.  Python   *)
(* indexes from 0 and TLA+ from 1: the operators Index and Slice take      *)
(* python indexes, negative ones included, and do the conversion.  An      *)
(* optional value (None or a value) is the empty sequence or a sequence    *)
(* of one element.                                                         *)
(***************************************************************************)
EXTENDS Integers, Sequences, FiniteSets, TLC

VARIABLES
    op_in,      \* the arguments of the function under study (unit specifications)
    op_out,     \* what that function returned or raised
    pending,    \* hits the generator of calculate() has not yielded yet
    hit,        \* the hit render_text is processing / has processed last
    status,     \* "running", "done" (loop exhausted) or "aborted" (exception left render_text)
    outfd,      \* the lines written for the last hit
    last        \* the locals of render_text at the end of the last iteration

vars == <<op_in, op_out, pending, hit, status, outfd, last>>

None == <<>>
Some(x) == <<x>>

Min(a, b) == IF a < b THEN a ELSE b
Max(a, b) == IF a > b THEN a ELSE b

\* The sequences over S of length up to n.
SeqsUpTo(S, n) == UNION {[1..k -> S] : k \in 0..n}

(***************************************************************************)
(* Python sequence primitives.                                             *)
(***************************************************************************)

\* s[i] for a python index i: a negative index counts from the end; the
\* result is None when python raises IndexError.
Index(s, i) ==
    IF i >= 0 /\ i < Len(s) THEN Some(s[i + 1])
    ELSE IF i < 0 /\ i >= -Len(s) THEN Some(s[Len(s) + i + 1])
    ELSE None

\* The bound of a slice as python normalises it.
SliceBound(n, i) ==
    IF i < 0 THEN Max(n + i, 0) ELSE Min(i, n)

\* s[lo:hi] for python indexes lo and hi.
Slice(s, lo, hi) ==
    LET a == SliceBound(Len(s), lo)
        b == SliceBound(Len(s), hi)
    IN  IF a >= b THEN <<>> ELSE SubSeq(s, a + 1, b)

(***************************************************************************)
(* An unsigned 32-bit value does not fit the integers of the checker: a    *)
(* wide number is the pair of its upper part (value \div 65536) and its    *)
(* lower 16 bits.  Python compares and subtracts such numbers exactly.     *)
(***************************************************************************)

WideOf(n) == [hi |-> n \div 65536, lo |-> n % 65536]

WLess(a, b) == a.hi < b.hi \/ (a.hi = b.hi /\ a.lo < b.lo)

\* a - b for a >= b.
WSub(a, b) ==
    IF a.lo >= b.lo THEN [hi |-> a.hi - b.hi, lo |-> a.lo - b.lo]
    ELSE [hi |-> a.hi - b.hi - 1, lo |-> a.lo + 65536 - b.lo]

\* A wide number as a slice bound: every value from 2^30 on is past the end
\* of any string, and is clipped there.
WClip(a) == IF a.hi >= 16384 THEN 1073741824 ELSE a.hi * 65536 + a.lo

\* The four bytes of a 32-bit wide number, lowest first.
WBytes(a) == <<a.lo % 256, a.lo \div 256, a.hi % 256, a.hi \div 256>>

\* struct.unpack of one little-endian unsigned 32-bit integer: None when the
\* string does not hold exactly 4 bytes (struct.error).
UnpackI(s) ==
    IF Len(s) # 4 THEN None
    ELSE Some([hi |-> s[3] + 256 * s[4], lo |-> s[1] + 256 * s[2]])

\* Whether pat occurs in s at python index i.
MatchAt(pat, s, i) ==
    /\ i >= 0
    /\ i + Len(pat) <= Len(s)
    /\ \A k \in 1..Len(pat) : s[i + k] = pat[k]

\* The least element of a non-empty set of integers.
Least(S) == CHOOSE i \in S : \A j \in S : i <= j
Greatest(S) == CHOOSE i \in S : \A j \in S : j <= i

\* re.search of a literal pattern: the start of the leftmost match, or None.
Search(pat, s) ==
    LET hits == {i \in 0..(Len(s) - Len(pat)) : MatchAt(pat, s, i)}
    IN  IF hits = {} THEN None ELSE Some(Least(hits))

(***************************************************************************)
(* The tables of the module.                                               *)
(***************************************************************************)

\* The rule names of redleaves_sig: str(hit) of a yara match is one of them.
RuleNames == {"RedLeaves", "Himawari", "Lavender", "Armadill", "zark20rk"}

\* The characters of the labels, for python's substring test `a in b`.
Chars ==
    [RedLeaves |-> <<82, 101, 100, 76, 101, 97, 118, 101, 115>>,
     Himawari  |-> <<72, 105, 109, 97, 119, 97, 114, 105>>,
     Lavender  |-> <<76, 97, 118, 101, 110, 100, 101, 114>>,
     Armadill  |-> <<65, 114, 109, 97, 100, 105, 108, 108>>,
     zark20rk  |-> <<122, 97, 114, 107, 50, 48, 114, 107>>]

\* str `a in b` on two labels.
StrIn(a, b) == Search(Chars[a], Chars[b]) # None

PatRedLeaves == <<104, 136, 19, 0, 0, 255>>
PatHimawari == <<104, 112, 3, 0, 0, 191>>
PatZark == <<104, 112, 3, 0, 0, 141>>

CONF_PATTERNS ==
    << [c_name |-> "RedLeaves", c_pt |-> PatRedLeaves],
       [c_name |-> "Himawari",  c_pt |-> PatHimawari],
       [c_name |-> "Lavender",  c_pt |-> PatHimawari],
       [c_name |-> "Armadill",  c_pt |-> PatHimawari],
       [c_name |-> "zark20rk",  c_pt |-> PatZark] >>

\* The secondary pattern the dispatch table gives a family: the row whose
\* label equals it.
OwnPattern(malname) ==
    CONF_PATTERNS[CHOOSE k \in 1..Len(CONF_PATTERNS) : CONF_PATTERNS[k].c_name = malname].c_pt

(***************************************************************************)
(* patternCheck.__init__: the loop over CONF_PATTERNS.  The object's       *)
(* attribute m_conf is unbound until an iteration assigns it.              *)
(***************************************************************************)

\* The loop without its break: later rows go on assigning m_conf.
RECURSIVE PatternLoop_nobreak(_, _, _, _)
PatternLoop_nobreak(malname, data, k, st) ==
    IF k > Len(CONF_PATTERNS) THEN st
    ELSE IF StrIn(malname, CONF_PATTERNS[k].c_name)
         THEN IF Search(CONF_PATTERNS[k].c_pt, data) # None
              THEN PatternLoop_nobreak(malname, data, k + 1,
                       [bound |-> TRUE, m_conf |-> Search(CONF_PATTERNS[k].c_pt, data)])
              ELSE PatternLoop_nobreak(malname, data, k + 1, st)
         ELSE PatternLoop_nobreak(malname, data, k + 1, [bound |-> TRUE, m_conf |-> None])

\* The iterations k, k+1, ... of the loop, from the attribute state st.
RECURSIVE PatternLoop(_, _, _, _)
PatternLoop(malname, data, k, st) ==
    IF k > Len(CONF_PATTERNS) THEN st
    ELSE IF StrIn(malname, CONF_PATTERNS[k].c_name)
         THEN IF Search(CONF_PATTERNS[k].c_pt, data) # None
              THEN [bound |-> TRUE, m_conf |-> Search(CONF_PATTERNS[k].c_pt, data)]
              ELSE PatternLoop(malname, data, k + 1, st)
         ELSE PatternLoop(malname, data, k + 1, [bound |-> TRUE, m_conf |-> None])

patternCheck(malname, data) ==
    PatternLoop(malname, data, 1, [bound |-> FALSE, m_conf |-> None])

(***************************************************************************)
(* The region lookups.  A VAD is [Start, End] as Volatility reports it.    *)
(***************************************************************************)

RECURSIVE VadEndFrom(_, _, _)
VadEndFrom(vads, address, k) ==
    IF k > Len(vads) THEN None
    ELSE IF address = vads[k].Start THEN Some(vads[k].End + 1)
    ELSE VadEndFrom(vads, address, k + 1)

\* vad_ck.get_vad_end
get_vad_end(vads, address) == VadEndFrom(vads, address, 1)

RECURSIVE VadBaseFrom(_, _, _)
VadBaseFrom(vads, address, k) ==
    IF k > Len(vads) THEN None
    ELSE IF address >= vads[k].Start /\ address < vads[k].End
         THEN Some(vads[k].Start)
    ELSE VadBaseFrom(vads, address, k + 1)

\* redleavesScan.get_vad_base
get_vad_base(vads, address) == VadBaseFrom(vads, address, 1)


(***************************************************************************)
(* The address resolvers of redleavesConfig.render_text.  A resolver       *)
(* returns the locals it leaves: raised is "none" or the exception that    *)
(* python raises (IndexError from an index outside the string,             *)
(* struct.error from unpack on a string that is not 4 bytes long).         *)
(***************************************************************************)

OpC7 == 199
OpBE == 190
OpBF == 191
ModRM85 == 133
ModRM45 == 69
StepBack == 6

\* data[o] is none of the three anchor opcodes (the test of lines 210 and 212).
NotAnchor(b) == b # OpC7 /\ b # OpBE /\ b # OpBF

\* The while loop of lines 210-211 from offset o: the offset at which it
\* stops, which is the greatest index up to o that holds an anchor opcode,
\* the negative indexes -1 .. -len(data) included; None when there is none
\* and data[-len(data) - 1] raises IndexError.
ScanBack(data, o) ==
    LET stops == {i \in (-Len(data))..o : ~NotAnchor(Index(data, i)[1])}
    IN  IF o >= Len(data) \/ stops = {} THEN None ELSE Some(Greatest(stops))

Raised(exc, o) == [raised |-> exc, skipped |-> FALSE, offset_conf |-> o, config_addr |-> None]
Resolved(o, addr) == [raised |-> "none", skipped |-> FALSE, offset_conf |-> o, config_addr |-> Some(addr)]
Skipped(o) == [raised |-> "none", skipped |-> TRUE, offset_conf |-> o, config_addr |-> None]

\* unpack("=I", data[lo:lo+4]) at offset_conf o.
UnpackAt(data, o, lo) ==
    IF UnpackI(Slice(data, lo, lo + 4)) = None THEN Raised("struct.error", Some(o))
    ELSE Resolved(Some(o), UnpackI(Slice(data, lo, lo + 4))[1])

\* Lines 217-223 ("get address") with offset_conf = o.
GetAddress_noform(data, o) == UnpackAt(data, o, o + 1)

GetAddress(data, o) ==
    IF Index(data, o) = None THEN Raised("IndexError", Some(o))
    ELSE IF Index(data, o)[1] = OpC7
         THEN IF Index(data, o + 1) = None THEN Raised("IndexError", Some(o))
              ELSE IF Index(data, o + 1)[1] # ModRM85 THEN UnpackAt(data, o, o + 3)
              ELSE UnpackAt(data, o, o + 6)
         ELSE UnpackAt(data, o, o + 1)

\* Lines 212-215 with offset_conf = o, the offset the while loop stopped at:
\* the `continue` of line 213, then the 6-byte step back.
AfterScan(data, o) ==
    IF NotAnchor(Index(data, o)[1]) THEN Skipped(Some(o))
    ELSE IF Index(data, o)[1] = OpC7
         THEN IF Index(data, o + 1) = None THEN Raised("IndexError", Some(o))
              ELSE IF Index(data, o + 1)[1] # ModRM85 /\ Index(data, o + 1)[1] # ModRM45
                   THEN GetAddress(data, o - StepBack)
                   ELSE GetAddress(data, o)
         ELSE GetAddress(data, o)

\* Lines 209-223: the RedLeaves resolver, from offset_conf = m_conf.start().
RedLeavesAddress(data, start_m) ==
    IF ScanBack(data, start_m - 1) = None THEN Raised("IndexError", None)
    ELSE AfterScan(data, ScanBack(data, start_m - 1)[1])

\* Lines 237-243: the resolver of the Himawari group.
HimawariAddress(malname, data, start_m) ==
    LET o == IF malname = "zark20rk" THEN start_m + 6 + 6 ELSE start_m + 6
    IN  UnpackAt(data, o, o)

(***************************************************************************)
(* Text.  A written line is its format string and the texts that % puts    *)
(* in it, each a sequence of character codes (or a string of               *)
(* CONNECT_MODE).                                                          *)
(***************************************************************************)

Line(fmt, args) == [fmt |-> fmt, args |-> args]

\* The digit d of a base up to 16, in upper case.
Digit(d) == IF d < 10 THEN 48 + d ELSE 55 + d

RECURSIVE NatStr(_, _)
NatStr(n, base) ==
    IF n < base THEN <<Digit(n)>>
    ELSE NatStr(n \div base, base) \o <<Digit(n % base)>>

IntStr(n, base) == IF n < 0 THEN <<45>> \o NatStr(-n, base) ELSE NatStr(n, base)

PadLeft(t, width, c) ==
    IF Len(t) >= width THEN t ELSE [k \in 1..(width - Len(t)) |-> c] \o t

\* "%i" of a wide number.
RECURSIVE WDec(_)
WDec(a) ==
    IF a.hi = 0 THEN NatStr(a.lo, 10)
    ELSE LET t == (a.hi % 10) * 65536 + a.lo
         IN  WDec([hi |-> a.hi \div 10, lo |-> t \div 10]) \o <<Digit(t % 10)>>

\* "%08X" of a wide number.
WHex08(a) ==
    IF a.hi = 0 THEN PadLeft(NatStr(a.lo, 16), 8, 48)
    ELSE PadLeft(NatStr(a.hi, 16) \o PadLeft(NatStr(a.lo, 16), 4, 48), 8, 48)

\* "%8X" of an integer.
Hex8(n) == PadLeft(IntStr(n, 16), 8, 32)

\* s.split('\0')[0]: the bytes before the first null byte.
SplitNul(s) ==
    LET nuls == {k \in 1..Len(s) : s[k] = 0}
    IN  IF nuls = {} THEN s ELSE SubSeq(s, 1, Least(nuls) - 1)

\* A replace that stops at the first null byte instead.
ReplaceNul_first(s) == SplitNul(s)

\* s.replace('\0', ''): every null byte removed.
NotNul(b) == b # 0
ReplaceNul(s) == SelectSeq(s, NotNul)

\* repr() of a python 2 str.
ReprQuote(s) ==
    IF (\E k \in 1..Len(s) : s[k] = 39) /\ ~(\E k \in 1..Len(s) : s[k] = 34) THEN 34 ELSE 39

LowerDigit(d) == IF d < 10 THEN 48 + d ELSE 87 + d

ReprChar(c, quote) ==
    IF c = quote \/ c = 92 THEN <<92, c>>
    ELSE IF c = 9 THEN <<92, 116>>
    ELSE IF c = 10 THEN <<92, 110>>
    ELSE IF c = 13 THEN <<92, 114>>
    ELSE IF c < 32 \/ c >= 127 THEN <<92, 120, LowerDigit(c \div 16), LowerDigit(c % 16)>>
    ELSE <<c>>

RECURSIVE ReprFrom(_, _, _)
ReprFrom(s, k, quote) ==
    IF k > Len(s) THEN <<>>
    ELSE ReprChar(s[k], quote) \o ReprFrom(s, k + 1, quote)

Repr(s) == <<ReprQuote(s)>> \o ReprFrom(s, 1, ReprQuote(s)) \o <<ReprQuote(s)>>

(***************************************************************************)
(* The decoders.  unpack_from raises struct.error when the blob ends       *)
(* before the field does; all the fields are read before a line is         *)
(* written.                                                                *)
(***************************************************************************)

CONNECT_MODE == (1 :> "TCP") @@ (2 :> "HTTP") @@ (3 :> "HTTPS") @@ (4 :> "TCP and HTTP")

\* unpack_from('<Ns', cfg_blob, off)[0]
UnpackFromS(cfg_blob, off, n) == SubSeq(cfg_blob, off + 1, off + n)

\* unpack_from('<I', cfg_blob, off)[0]
UnpackFromI(cfg_blob, off) == UnpackI(SubSeq(cfg_blob, off + 1, off + 4))[1]

\* Whether every read of a layout (offset, size) is inside the blob.
ReadsFit(cfg_blob, reads) == \A r \in reads : r[1] + r[2] <= Len(cfg_blob)

RedLeavesReads ==
    {<<0, 64>>, <<64, 64>>, <<128, 64>>, <<192, 4>>, <<464, 4>>, <<484, 64>>,
     <<1280, 550>>, <<1830, 104>>, <<2090, 10>>}

HimawariReads ==
    {<<4, 64>>, <<68, 64>>, <<132, 64>>, <<196, 64>>, <<260, 4>>, <<268, 64>>,
     <<332, 64>>, <<396, 64>>, <<464, 4>>, <<468, 4>>, <<472, 4>>, <<480, 64>>,
     <<548, 62>>, <<544, 4>>, <<610, 260>>, <<870, 10>>}

\* redleavesConfig.parse_config: the lines written, and the exception that
\* ends it ("none" when it returns).
parse_config(cfg_blob) ==
    IF ~ReadsFit(cfg_blob, RedLeavesReads) THEN [raised |-> "struct.error", lines |-> <<>>]
    ELSE LET server1 == UnpackFromS(cfg_blob, 0, 64)
             server2 == UnpackFromS(cfg_blob, 64, 64)
             server3 == UnpackFromS(cfg_blob, 128, 64)
             port == UnpackFromI(cfg_blob, 192)
             mode == UnpackFromI(cfg_blob, 464)
             id == UnpackFromS(cfg_blob, 484, 64)
             mutex == UnpackFromS(cfg_blob, 1280, 550)
             injection == UnpackFromS(cfg_blob, 1830, 104)
             rc4key == UnpackFromS(cfg_blob, 2090, 10)
             head == << Line("[Config Info]\n", <<>>),
                        Line("Server1\t\t\t: %s\n", <<SplitNul(server1)>>),
                        Line("Server2\t\t\t: %s\n", <<SplitNul(server2)>>),
                        Line("Server3\t\t\t: %s\n", <<SplitNul(server3)>>),
                        Line("Port\t\t\t: %i\n", <<WDec(port)>>) >>
         IN  IF ~(mode.hi = 0 /\ mode.lo \in DOMAIN CONNECT_MODE)
             THEN [raised |-> "KeyError", lines |-> head]
             ELSE [raised |-> "none",
                   lines |-> head \o
                     << Line("Mode\t\t\t: %i (%s)\n", <<WDec(mode), CONNECT_MODE[mode.lo]>>),
                        Line("ID\t\t\t: %s\n", <<SplitNul(id)>>),
                        Line("Mutex\t\t\t: %s\n", <<ReplaceNul(mutex)>>),
                        Line("Injection Process\t: %s\n", <<ReplaceNul(injection)>>),
                        Line("RC4 Key\t\t\t: %s\n", <<SplitNul(rc4key)>>) >>]

\* redleavesConfig.parse_config_himawari
parse_config_himawari(cfg_blob) ==
    IF ~ReadsFit(cfg_blob, HimawariReads) THEN [raised |-> "struct.error", lines |-> <<>>]
    ELSE LET server1 == UnpackFromS(cfg_blob, 4, 64)
             server2 == UnpackFromS(cfg_blob, 68, 64)
             server3 == UnpackFromS(cfg_blob, 132, 64)
             server4 == UnpackFromS(cfg_blob, 196, 64)
             port == UnpackFromI(cfg_blob, 260)
             unknown1 == UnpackFromS(cfg_blob, 268, 64)
             unknown2 == UnpackFromS(cfg_blob, 332, 64)
             unknown3 == UnpackFromS(cfg_blob, 396, 64)
             mode == UnpackFromI(cfg_blob, 472)
             id == UnpackFromS(cfg_blob, 480, 64)
             mutex == UnpackFromS(cfg_blob, 548, 62)
             ua == UnpackFromS(cfg_blob, 610, 260)
             key == UnpackFromS(cfg_blob, 870, 10)
         IN  [raised |-> "none",
              lines |->
                << Line("[Config Info]\n", <<>>),
                   Line("Server1\t\t\t: %s\n", <<SplitNul(server1)>>),
                   Line("Server2\t\t\t: %s\n", <<SplitNul(server2)>>),
                   Line("Server3\t\t\t: %s\n", <<SplitNul(server3)>>),
                   Line("Server4\t\t\t: %s\n", <<SplitNul(server4)>>),
                   Line("Port\t\t\t: %i\n", <<WDec(port)>>),
                   Line("Mode\t\t\t: %i \n", <<WDec(mode)>>),
                   Line("ID\t\t\t: %s\n", <<SplitNul(id)>>),
                   Line("Mutex\t\t\t: %s\n", <<ReplaceNul(mutex)>>),
                   Line("Key\t\t\t: %s\n", <<SplitNul(key)>>),
                   Line("UserAgent\t\t\t: %s\n", <<SplitNul(ua)>>),
                   Line("unknown1\t\t\t: %s\n", <<Repr(unknown1)>>),
                   Line("unknown2\t\t\t: %s\n", <<Repr(unknown2)>>),
                   Line("unknown3\t\t\t: %s\n", <<Repr(unknown3)>>) >>]

(***************************************************************************)
(* redleavesConfig.render_text: one iteration of its loop, on the hit      *)
(* (task, start, malname) that calculate() yields.  The result holds the   *)
(* lines the iteration wrote, its locals, how it ended (ending) and the    *)
(* exception it raised ("none" when the loop goes on).                     *)
(***************************************************************************)

ConfigSizeRedLeaves == 2100
ConfigSizeHimawari == 880

Delim == [k \in 1..70 |-> 45]

\* proc_addr_space.zread(start, length): the bytes of the task's memory from
\* address start, zeros where nothing is mapped.  task.mem holds the bytes
\* mapped from address task.base on.
zread(task, start, length) ==
    SubSeq([k \in 1..length |->
               IF start + k - 1 >= task.base /\ start + k - 1 < task.base + Len(task.mem)
               THEN task.mem[start + k - task.base]
               ELSE 0],
           1, length)

Locals(data, m_conf, res, config_data, decoder) ==
    [data |-> data, m_conf |-> m_conf, offset_conf |-> res.offset_conf,
     config_addr |-> res.config_addr, config_data |-> config_data, decoder |-> decoder]

Ended(ending, raised, lines, locals) ==
    [ending |-> ending, raised |-> raised, lines |-> lines, locals |-> locals]

NoAddress == [offset_conf |-> None, config_addr |-> None]

\* The decoder a family's branch calls on a non-empty blob.
Decode(decoder, config_data) ==
    IF decoder = "parse_config" THEN parse_config(config_data)
    ELSE parse_config_himawari(config_data)

\* Lines 226-234 and 246-255: the bound check of the pointer, the slice of
\* the blob and the call of the decoder; first is what the branch wrote
\* before, title the family named in the header.
LocateAndDecode_noclip(task, start, data, m_conf, res, config_size, decoder, first, title) ==
    LET rel == WClip(WSub(res.config_addr[1], WideOf(start)))
        config_data == SubSeq([k \in 1..config_size |->
                                   IF rel + k <= Len(data) THEN data[rel + k] ELSE 0],
                              1, config_size)
        dec == Decode(decoder, config_data)
    IN  IF WLess(res.config_addr[1], WideOf(start))
        THEN Ended("continue", "none", first, Locals(data, m_conf, res, None, "none"))
        ELSE Ended(IF dec.raised = "none" THEN "decoded" ELSE "raised", dec.raised,
                   first \o <<Line("%s\n", <<Delim>>), Line("%s Settings:\n\n", <<title>>),
                              Line("Process: %s (%d)\n\n",
                                   <<task.ImageFileName, IntStr(task.UniqueProcessId, 10)>>)>>
                         \o dec.lines,
                   Locals(data, m_conf, res, Some(config_data), decoder))

LocateAndDecode(task, start, data, m_conf, res, config_size, decoder, first, title) ==
    IF WLess(res.config_addr[1], WideOf(start))
    THEN Ended("continue", "none", first, Locals(data, m_conf, res, None, "none"))
    ELSE LET rel == WClip(WSub(res.config_addr[1], WideOf(start)))
             config_data == Slice(data, rel, rel + config_size)
             header == first \o
                 <<Line("%s\n", <<Delim>>), Line("%s Settings:\n\n", <<title>>),
                   Line("Process: %s (%d)\n\n",
                        <<task.ImageFileName, IntStr(task.UniqueProcessId, 10)>>)>>
         IN  IF Len(config_data) > 0
             THEN LET dec == Decode(decoder, config_data)
                  IN  Ended(IF dec.raised = "none" THEN "decoded" ELSE "raised", dec.raised,
                            header \o dec.lines,
                            Locals(data, m_conf, res, Some(config_data), decoder))
             ELSE Ended("empty blob", "none", header,
                        Locals(data, m_conf, res, Some(config_data), "none"))

\* Lines 206-234: the RedLeaves branch.
RedLeavesBranch(task, start, data, m_conf) ==
    LET res == RedLeavesAddress(data, m_conf[1])
    IN  IF res.raised # "none"
        THEN Ended("raised", res.raised, <<>>, Locals(data, m_conf, res, None, "none"))
        ELSE IF res.skipped
        THEN Ended("continue", "none", <<>>, Locals(data, m_conf, res, None, "none"))
        ELSE LocateAndDecode(task, start, data, m_conf, res, ConfigSizeRedLeaves, "parse_config",
                 <<Line("Process: %8X\n\n", <<Hex8(res.offset_conf[1])>>)>>,
                 "RedLeaves")

\* Lines 236-255: the branch of the Himawari group.
HimawariBranch(task, start, malname, data, m_conf) ==
    LET res == HimawariAddress(malname, data, m_conf[1])
    IN  IF res.raised # "none"
        THEN Ended("raised", res.raised, <<>>, Locals(data, m_conf, res, None, "none"))
        ELSE LocateAndDecode(task, start, data, m_conf, res, ConfigSizeHimawari,
                 "parse_config_himawari",
                 <<Line("config addr: %08X\n\n", <<WHex08(res.config_addr[1])>>)>>,
                 malname)

\* Lines 200-236 for the window data: patternCheck and the two branches.
RenderWindow(task, start, malname, data) ==
    LET loadp == patternCheck(malname, data)
    IN  IF ~loadp.bound
        THEN Ended("raised", "AttributeError", <<>>, Locals(data, None, NoAddress, None, "none"))
        ELSE IF loadp.m_conf = None
        THEN Ended("continue", "none", <<>>, Locals(data, None, NoAddress, None, "none"))
        ELSE IF StrIn(malname, "RedLeaves")
        THEN RedLeavesBranch(task, start, data, loadp.m_conf)
        ELSE IF malname \in {"Himawari", "Lavender", "Armadill", "zark20rk"}
        THEN HimawariBranch(task, start, malname, data, loadp.m_conf)
        ELSE Ended("no branch", "none", <<>>, Locals(data, loadp.m_conf, NoAddress, None, "none"))

\* Lines 196-198 and on: the body of the loop for the hit (task, start,
\* malname); start is None when get_vad_base found no region.
RenderHit(task, start, malname) ==
    IF start = None \/ get_vad_end(task.vads, start[1]) = None
    THEN Ended("raised", "TypeError", <<>>, Locals(<<>>, None, NoAddress, None, "none"))
    ELSE RenderWindow(task, start[1], malname,
                      zread(task, start[1], get_vad_end(task.vads, start[1])[1] - start[1]))

(***************************************************************************)
(* Idle values of the variables a specification does not use.              *)
(***************************************************************************)

NoCall == [fn |-> "none"]
NoHit == [malname |-> "none"]

ScanIdle ==
    /\ pending = 0
    /\ hit = NoHit
    /\ status = "idle"
    /\ outfd = <<>>
    /\ last = [outcome |-> "none"]

ScanUnchanged == UNCHANGED <<pending, hit, status, outfd, last>>

(***************************************************************************)
(* Spec: the scan.  calculate() yields one hit per infected task and       *)
(* render_text consumes them one by one; an exception that leaves the      *)
(* loop body ends render_text, and with it the scan.  The hits are drawn   *)
(* from a library of process images: a code part that holds the pattern    *)
(* and the instruction carrying the pointer, then a configuration record   *)
(* of some length.                                                         *)
(***************************************************************************)

MaxHits == 2

Zeros(n) == [k \in 1..n |-> 0]

\* The pieces k, k+1, ... (each <<offset, bytes>>, by rising offset), with
\* zero bytes between them, from offset pos on.
RECURSIVE LayFrom(_, _, _)
LayFrom(pieces, k, pos) ==
    IF k > Len(pieces) THEN <<>>
    ELSE Zeros(pieces[k][1] - pos) \o pieces[k][2]
             \o LayFrom(pieces, k + 1, pieces[k][1] + Len(pieces[k][2]))

\* A record of size bytes: the pieces laid over zero bytes.
Overlay(size, pieces) ==
    SubSeq(LayFrom(pieces, 1, 0) \o Zeros(size), 1, size)

\* "a", "b.c" with a null byte inside, the port 443, a connect mode.
TextA == <<97, 0, 98>>
TextB == <<49, 46, 50, 0, 0, 51>>
Port443 == <<187, 1, 0, 0>>

RedLeavesImage(mode) ==
    Overlay(ConfigSizeRedLeaves + 1,
            << <<0, TextB>>, <<64, TextA>>, <<192, Port443>>, <<464, <<mode, 0, 0, 0>>>>,
               <<484, TextA>>, <<1280, TextB>>, <<1830, TextA>>, <<2090, TextB>> >>)

HimawariImage(mode) ==
    Overlay(ConfigSizeHimawari + 1,
            << <<4, TextB>>, <<68, TextA>>, <<260, Port443>>, <<268, TextA>>,
               <<472, <<mode, 0, 0, 0>>>>, <<480, TextA>>, <<548, TextB>>, <<610, TextB>>,
               <<870, TextA>> >>)

\* The code part of a window, around the four bytes lit of the pointer.
CodePart(malname, form, lit) ==
    CASE form = "BE" -> <<OpBE>> \o lit \o PatRedLeaves
      [] form = "C7 85" -> <<OpC7, ModRM85, 0, 0, 0, 0>> \o lit \o PatRedLeaves
      [] form = "C7 45" -> <<OpC7, ModRM45, 0>> \o lit \o PatRedLeaves
      [] form = "step back" -> <<OpBF>> \o lit \o <<0, OpC7, 5>> \o PatRedLeaves
      [] form = "no anchor" -> <<0>> \o PatRedLeaves
      [] form = "cut" -> <<OpC7, ModRM85, 0>> \o PatRedLeaves
      [] form = "forward" -> IF malname = "zark20rk"
                             THEN <<0>> \o PatZark \o <<0, 0, 0, 0, 0, 0>> \o lit
                             ELSE <<0>> \o PatHimawari \o lit
      [] form = "forward cut" -> OwnPattern(malname) \o <<1, 2>>
      [] form = "no pattern" -> <<0, 0, 0>>

CodeLen(malname, form) == Len(CodePart(malname, form, <<0, 0, 0, 0>>))

Forms(malname) ==
    IF malname = "RedLeaves"
    THEN {"BE", "C7 85", "C7 45", "step back", "no anchor", "cut", "no pattern"}
    ELSE {"forward", "forward cut", "no pattern"}

WithPointer == {"BE", "C7 85", "C7 45", "step back", "forward"}

ConfigSize(malname) == IF malname = "RedLeaves" THEN ConfigSizeRedLeaves ELSE ConfigSizeHimawari

\* How much of the configuration record the region still holds.
TailLens(malname) ==
    {0, 1, ConfigSize(malname) - 1, ConfigSize(malname), ConfigSize(malname) + 1}

Scenarios ==
    {sc \in [malname : RuleNames,
             form : {"BE", "C7 85", "C7 45", "step back", "no anchor", "cut",
                     "forward", "forward cut", "no pattern"},
             start : {0, 4096},
             target : {"record", "below", "far"},
             tail : {0, 1, ConfigSizeHimawari - 1, ConfigSizeHimawari, ConfigSizeHimawari + 1,
                     ConfigSizeRedLeaves - 1, ConfigSizeRedLeaves, ConfigSizeRedLeaves + 1},
             mode : {3, 5},
             at : {"base", "end"}] :
        /\ sc.form \in Forms(sc.malname)
        /\ sc.at = "end" => sc.form = "no pattern"
        /\ sc.tail \in TailLens(sc.malname)
        /\ sc.target = "below" => sc.start > 0
        /\ sc.start = 0 => sc.target = "record"
        /\ sc.form \notin WithPointer => (sc.target = "record" /\ sc.tail = 0 /\ sc.start = 0)
        /\ sc.mode = 5 => (sc.tail = ConfigSize(sc.malname) /\ sc.target = "record" /\ sc.start = 0)}

\* The pointer of a scenario: the address of the record, the address below
\* the region, or the largest 32-bit value.
PointerOf(sc) ==
    CASE sc.target = "record" -> WideOf(sc.start + CodeLen(sc.malname, sc.form))
      [] sc.target = "below" -> WideOf(sc.start - 1)
      [] sc.target = "far" -> [hi |-> 65535, lo |-> 65535]

WindowOf(sc) ==
    CodePart(sc.malname, sc.form, WBytes(PointerOf(sc)))
        \o SubSeq(IF sc.malname = "RedLeaves" THEN RedLeavesImage(sc.mode) ELSE HimawariImage(sc.mode),
                  1, sc.tail)

ImageName == <<115, 118, 99, 104, 111, 115, 116, 46, 101, 120, 101>>

\* The task of a scenario: one VAD that holds the window, and the address at
\* which the yara rule matched in it: the first byte of the VAD or its last.
HitOf(sc) ==
    LET w == WindowOf(sc)
    IN  [task |-> [vads |-> <<[Start |-> sc.start, End |-> sc.start + Len(w) - 1]>>,
                   base |-> sc.start,
                   mem |-> w,
                   ImageFileName |-> ImageName,
                   UniqueProcessId |-> 1234],
         malname |-> sc.malname,
         address |-> IF sc.at = "end" THEN sc.start + Len(w) - 1 ELSE sc.start]

HitSet == {HitOf(sc) : sc \in Scenarios}

Init ==
    /\ pending \in 1..MaxHits
    /\ status = "running"
    /\ hit = NoHit
    /\ outfd = <<>>
    /\ last = [outcome |-> "none"]
    /\ op_in = NoCall
    /\ op_out = NoCall

\* What an iteration of `for task, start, malname, memory_model in data`
\* does with each hit of the library (a function of the hit alone, computed
\* once): calculate() (lines 113-117) yields the hit with
\* start = get_vad_base(task, address), and the body of the loop runs on it.
Iteration(h) ==
    LET start == get_vad_base(h.task.vads, h.address)
    IN  [hit |-> [task |-> h.task, start |-> start, malname |-> h.malname],
         r |-> RenderHit(h.task, start, h.malname)]

Iterations == {Iteration(h) : h \in HitSet}

\* An iteration whose body ends normally or by continue.
RenderNext ==
    /\ status = "running"
    /\ pending > 0
    /\ \E it \in Iterations :
          /\ it.r.raised = "none"
          /\ hit' = it.hit
          /\ outfd' = it.r.lines
          /\ last' = [outcome |-> it.r.ending, locals |-> it.r.locals]
    /\ pending' = pending - 1
    /\ UNCHANGED <<status, op_in, op_out>>

\* An iteration whose body raises: the exception leaves render_text.
RenderRaise ==
    /\ status = "running"
    /\ pending > 0
    /\ \E it \in Iterations :
          /\ it.r.raised # "none"
          /\ hit' = it.hit
          /\ outfd' = it.r.lines
          /\ last' = [outcome |-> it.r.raised, locals |-> it.r.locals]
    /\ pending' = pending - 1
    /\ status' = "aborted"
    /\ UNCHANGED <<op_in, op_out>>

\* The generator is exhausted: render_text returns.
RenderReturn ==
    /\ status = "running"
    /\ pending = 0
    /\ status' = "done"
    /\ UNCHANGED <<pending, hit, outfd, last, op_in, op_out>>

Next == RenderNext \/ RenderRaise \/ RenderReturn

Spec == Init /\ [][Next]_vars

\* C2: a hit that fails does not end the scan: render_text is never left by
\* an exception while hits are still to come.
ScanSurvivesHitFailure == ~(status = "aborted" /\ pending > 0)

\* The window, the region base and the blob length of the last iteration.
LastData == last.locals.data
LastStart == hit.start[1]
LastBlobLen == ConfigSize(hit.malname)

\* C3: no blob when the pointer is below the region base; otherwise the blob
\* is data[rel : rel + blob_len] clipped to the window, of length
\* min(blob_len, len(data) - rel) or 0 when rel >= len(data); and the decoder
\* is never called with an empty blob.
BlobWithinWindow ==
    (last.outcome # "none" /\ last.locals.config_addr # None) =>
        LET addr == last.locals.config_addr[1]
        IN  IF WLess(addr, WideOf(LastStart))
            THEN last.locals.config_data = None /\ last.locals.decoder = "none"
            ELSE /\ last.locals.config_data # None
                 /\ LET rel == WClip(WSub(addr, WideOf(LastStart)))
                        blob == last.locals.config_data[1]
                        avail == IF rel >= Len(LastData) THEN 0 ELSE Len(LastData) - rel
                    IN  /\ Len(blob) = Min(LastBlobLen, avail)
                        /\ \A k \in 1..Len(blob) : blob[k] = LastData[rel + k]
                        /\ last.locals.decoder # "none" => Len(blob) > 0

\* A blob of the Himawari group clipped by the end of the window, and the
\* decoder called on it.
BlobWithinWindowWitness ==
    /\ last.outcome # "none"
    /\ hit.malname = "Lavender"
    /\ last.locals.config_data # None
    /\ Len(last.locals.config_data[1]) = 879
    /\ last.locals.decoder = "parse_config_himawari"

\* C10: a decoder is only called on a blob of its full length (2100 bytes
\* for parse_config, 880 for parse_config_himawari), so that no field read
\* is outside the blob.
DecoderGetsFullBlob ==
    (last.outcome # "none" /\ last.locals.decoder # "none") =>
        /\ Len(last.locals.config_data[1]) = LastBlobLen
        /\ last.outcome # "struct.error"

(***************************************************************************)
(* SpecDecode: the two decoders on records whose string fields hold a      *)
(* tag byte (the field's own), a short text with or without null bytes     *)
(* and a filler byte up to the width of the field.                         *)
(***************************************************************************)

MaxText == 3

Texts == SeqsUpTo({0, 97, 98}, MaxText)

\* The string fields of the two layouts, <<offset, width>>, and between
\* them the offset of the connect mode with its width.
RedLeavesFields ==
    << <<0, 64>>, <<64, 64>>, <<128, 64>>, <<464, 4>>, <<484, 64>>, <<1280, 550>>,
       <<1830, 104>>, <<2090, 10>> >>
HimawariFields ==
    << <<4, 64>>, <<68, 64>>, <<132, 64>>, <<196, 64>>, <<268, 64>>, <<332, 64>>, <<396, 64>>,
       <<472, 4>>, <<480, 64>>, <<548, 62>>, <<610, 260>>, <<870, 10>> >>

\* The field at offset off: its tag, the text, the filler.
FieldBytes(off, width, text, fill) ==
    SubSeq(<<65 + (off % 26)>> \o text \o [k \in 1..width |-> fill], 1, width)

RecordOf(size, fields, mode, text, fill) ==
    Overlay(size,
            [k \in 1..Len(fields) |->
                IF fields[k][2] = 4 THEN <<fields[k][1], <<mode, 0, 0, 0>>>>
                ELSE <<fields[k][1], FieldBytes(fields[k][1], fields[k][2], text, fill)>>])

InitDecode ==
    /\ \E text \in Texts, fill \in {0, 120}, mode \in {1, 4, 5}, cut \in {0, 1} :
          \/ op_in = [decoder |-> "parse_config",
                      cfg_blob |-> SubSeq(RecordOf(ConfigSizeRedLeaves, RedLeavesFields,
                                                   mode, text, fill),
                                          1, ConfigSizeRedLeaves - cut)]
          \/ op_in = [decoder |-> "parse_config_himawari",
                      cfg_blob |-> SubSeq(RecordOf(ConfigSizeHimawari, HimawariFields,
                                                   mode, text, fill),
                                          1, ConfigSizeHimawari - cut)]
    /\ op_out = NoCall
    /\ ScanIdle

CallParseConfig ==
    /\ op_out = NoCall
    /\ "decoder" \in DOMAIN op_in
    /\ op_in.decoder = "parse_config"
    /\ op_out' = [fn |-> "parse_config", ret |-> parse_config(op_in.cfg_blob)]
    /\ UNCHANGED op_in
    /\ ScanUnchanged

CallParseConfigHimawari ==
    /\ op_out = NoCall
    /\ "decoder" \in DOMAIN op_in
    /\ op_in.decoder = "parse_config_himawari"
    /\ op_out' = [fn |-> "parse_config_himawari", ret |-> parse_config_himawari(op_in.cfg_blob)]
    /\ UNCHANGED op_in
    /\ ScanUnchanged

NextDecode == CallParseConfig \/ CallParseConfigHimawari

SpecDecode == InitDecode /\ [][NextDecode]_vars

\* The text a returned decoder wrote on the line of format fmt.
Written(fmt) ==
    op_out.ret.lines[CHOOSE k \in 1..Len(op_out.ret.lines) : op_out.ret.lines[k].fmt = fmt].args[1]

\* The raw field of the decoded blob at the documented offset.
Raw(off, width) == SubSeq(op_in.cfg_blob, off + 1, off + width)

\* t is raw up to its first null byte.
IsBeforeFirstNul(t, raw) ==
    /\ Len(t) <= Len(raw)
    /\ \A k \in 1..Len(t) : t[k] = raw[k] /\ t[k] # 0
    /\ Len(t) < Len(raw) => raw[Len(t) + 1] = 0

\* t is raw without its null bytes (the bytes after a null are kept).
IsNulsRemoved(t, raw) ==
    /\ Len(t) = Cardinality({k \in 1..Len(raw) : raw[k] # 0})
    /\ \A k \in 1..Len(raw) :
          raw[k] # 0 => t[Cardinality({j \in 1..k : raw[j] # 0})] = raw[k]

RedLeavesFieldsRendered ==
    (op_out.fn = "parse_config" /\ op_out.ret.raised = "none") =>
        /\ IsBeforeFirstNul(Written("Server1\t\t\t: %s\n"), Raw(0, 64))
        /\ IsBeforeFirstNul(Written("Server2\t\t\t: %s\n"), Raw(64, 64))
        /\ IsBeforeFirstNul(Written("Server3\t\t\t: %s\n"), Raw(128, 64))
        /\ IsBeforeFirstNul(Written("ID\t\t\t: %s\n"), Raw(484, 64))
        /\ IsBeforeFirstNul(Written("RC4 Key\t\t\t: %s\n"), Raw(2090, 10))
        /\ IsNulsRemoved(Written("Mutex\t\t\t: %s\n"), Raw(1280, 550))
        /\ IsNulsRemoved(Written("Injection Process\t: %s\n"), Raw(1830, 104))

HimawariFieldsRendered ==
    (op_out.fn = "parse_config_himawari" /\ op_out.ret.raised = "none") =>
        /\ IsBeforeFirstNul(Written("Server1\t\t\t: %s\n"), Raw(4, 64))
        /\ IsBeforeFirstNul(Written("Server2\t\t\t: %s\n"), Raw(68, 64))
        /\ IsBeforeFirstNul(Written("Server3\t\t\t: %s\n"), Raw(132, 64))
        /\ IsBeforeFirstNul(Written("Server4\t\t\t: %s\n"), Raw(196, 64))
        /\ IsBeforeFirstNul(Written("ID\t\t\t: %s\n"), Raw(480, 64))
        /\ IsBeforeFirstNul(Written("Key\t\t\t: %s\n"), Raw(870, 10))
        /\ IsNulsRemoved(Written("Mutex\t\t\t: %s\n"), Raw(548, 62))

\* C6 as stated: ID, server and key fields are cut at the first null byte;
\* mutex, injection-process and user-agent fields have their null bytes
\* removed.
NullHandlingPerField ==
    /\ RedLeavesFieldsRendered
    /\ HimawariFieldsRendered
    /\ (op_out.fn = "parse_config_himawari" /\ op_out.ret.raised = "none") =>
           IsNulsRemoved(Written("UserAgent\t\t\t: %s\n"), Raw(610, 260))

\* C6 as amended: the user-agent field of the Himawari layout is cut at the
\* first null byte, like the ID, server and key fields; the mutex and
\* injection-process fields have their null bytes removed.
NullHandlingPerFieldAmended ==
    /\ RedLeavesFieldsRendered
    /\ HimawariFieldsRendered
    /\ (op_out.fn = "parse_config_himawari" /\ op_out.ret.raised = "none") =>
           IsBeforeFirstNul(Written("UserAgent\t\t\t: %s\n"), Raw(610, 260))

\* A Himawari record whose fields hold a null byte followed by other bytes,
\* decoded.
NullHandlingWitness ==
    /\ op_out.fn = "parse_config_himawari"
    /\ op_out.ret.raised = "none"
    /\ Raw(610, 4) = <<65 + (610 % 26), 97, 0, 98>>
    /\ Written("UserAgent\t\t\t: %s\n") = <<65 + (610 % 26), 97>>
    /\ Written("Mutex\t\t\t: %s\n") = <<65 + (548 % 26), 97, 98>>


(***************************************************************************)
(* SpecRegion: the two region lookups on every small VAD list.             *)
(***************************************************************************)

MaxAddr == 5
MaxVads == 2

Vads == {v \in [Start : 0..MaxAddr, End : 0..MaxAddr] : v.Start <= v.End}

\* Two VADs share no address (End is the last address of a VAD).
Disjoint(v, w) == v.End < w.Start \/ w.End < v.Start

VadLists ==
    UNION {{l \in [1..n -> Vads] : \A i, j \in 1..n : i # j => Disjoint(l[i], l[j])}
           : n \in 0..MaxVads}

InitRegion ==
    /\ op_in \in [vads : VadLists, address : 0..(MaxAddr + 1)]
    /\ op_out = NoCall
    /\ ScanIdle

CallGetVadBase ==
    /\ op_out = NoCall
    /\ "vads" \in DOMAIN op_in
    /\ op_out' = [fn |-> "get_vad_base", ret |-> get_vad_base(op_in.vads, op_in.address)]
    /\ UNCHANGED op_in
    /\ ScanUnchanged

CallGetVadEnd ==
    /\ op_out = NoCall
    /\ "vads" \in DOMAIN op_in
    /\ op_out' = [fn |-> "get_vad_end", ret |-> get_vad_end(op_in.vads, op_in.address)]
    /\ UNCHANGED op_in
    /\ ScanUnchanged

NextRegion == CallGetVadBase \/ CallGetVadEnd

SpecRegion == InitRegion /\ [][NextRegion]_vars

\* C1: the lookup agrees with the bounds get_vad_end reports: an address a
\* with R.Start <= a < get_vad_end(R.Start) is found in R, and an address in
\* no region is not found.
LookupAgreesWithRegionEnd ==
    op_out.fn = "get_vad_base" =>
        LET vads == op_in.vads
            a == op_in.address
            Inside(k) == /\ vads[k].Start <= a
                         /\ get_vad_end(vads, vads[k].Start) # None
                         /\ a < get_vad_end(vads, vads[k].Start)[1]
        IN  /\ \A k \in 1..Len(vads) : Inside(k) => op_out.ret = Some(vads[k].Start)
            /\ (\A k \in 1..Len(vads) : ~Inside(k)) => op_out.ret = None

(***************************************************************************)
(* SpecClassify: patternCheck on every label and every window made of a    *)
(* few chunks (the patterns, pieces of them, filler bytes).                *)
(***************************************************************************)

MaxChunks == 3

ChunkLib ==
    {PatRedLeaves, PatHimawari, PatZark, SubSeq(PatHimawari, 1, 5), <<191>>, <<104>>, <<0>>}

RECURSIVE ChunkWindows(_)
ChunkWindows(n) ==
    IF n = 0 THEN {<<>>}
    ELSE LET shorter == ChunkWindows(n - 1)
         IN  shorter \cup {w \o c : w \in shorter, c \in ChunkLib}

InitClassify ==
    /\ op_in \in [malname : RuleNames, data : ChunkWindows(MaxChunks)]
    /\ op_out = NoCall
    /\ ScanIdle

CallPatternCheck ==
    /\ op_out = NoCall
    /\ "malname" \in DOMAIN op_in
    /\ op_out' = [fn |-> "patternCheck", ret |-> patternCheck(op_in.malname, op_in.data)]
    /\ UNCHANGED op_in
    /\ ScanUnchanged

NextClassify == CallPatternCheck

SpecClassify == InitClassify /\ [][NextClassify]_vars

\* C4: after construction m_conf is bound; it is the lowest offset at which
\* the family's own pattern occurs in the window, and None when that pattern
\* does not occur, whatever other patterns the window holds.
ClassifyFirstOwnMatch ==
    op_out.fn = "patternCheck" =>
        LET own == OwnPattern(op_in.malname)
            at == {i \in 0..Len(op_in.data) : MatchAt(own, op_in.data, i)}
        IN  /\ op_out.ret.bound
            /\ at = {} => op_out.ret.m_conf = None
            /\ at # {} => /\ op_out.ret.m_conf # None
                           /\ op_out.ret.m_conf[1] \in at
                           /\ \A j \in at : op_out.ret.m_conf[1] <= j

\* A window in which another family's pattern comes first and the family's
\* own pattern occurs twice, classified.
ClassifyWitness ==
    /\ op_out.fn = "patternCheck"
    /\ op_in.malname = "zark20rk"
    /\ op_in.data = PatHimawari \o PatZark \o PatZark
    /\ op_out.ret.m_conf = Some(6)


(***************************************************************************)
(* SpecResolve: the two resolvers on windows that hold the family's        *)
(* pattern: for RedLeaves every prefix over the bytes the resolver tests,  *)
(* for the Himawari group every short suffix.                              *)
(***************************************************************************)

MaxPre == 5
MaxPost == 10

\* The bytes the RedLeaves resolver distinguishes, and one other byte.
ResolveBytes == {OpC7, OpBE, OpBF, ModRM85, ModRM45, 0}

\* What may follow the RedLeaves pattern: nothing, or an instruction with an
\* anchor opcode.
RedLeavesPosts == {<<>>, <<OpBE, 16, 0, 0, 0, 0>>}

\* Prefixes in which 0xC7 stands StepBack bytes after two chosen bytes, so
\* that the step back of line 215 lands inside the window.
StepBackPrefixes ==
    {far \o mid \o <<OpC7>> \o near :
        far \in [1..2 -> ResolveBytes], mid \in [1..4 -> {0, 16}],
        near \in SeqsUpTo({0, ModRM85}, 1)}

HimawariGroup == {"Himawari", "Lavender", "Armadill", "zark20rk"}

InitResolve ==
    /\ \/ \E pre \in SeqsUpTo(ResolveBytes, MaxPre), post \in RedLeavesPosts :
            op_in = [malname |-> "RedLeaves", data |-> pre \o PatRedLeaves \o post]
       \/ \E pre \in StepBackPrefixes :
            op_in = [malname |-> "RedLeaves", data |-> pre \o PatRedLeaves]
       \/ \E m \in HimawariGroup, pre \in SeqsUpTo({0}, 1), post \in SeqsUpTo({0, 16}, MaxPost) :
            op_in = [malname |-> m, data |-> pre \o OwnPattern(m) \o post]
    /\ op_out = NoCall
    /\ ScanIdle

\* (loadp is bound by \E over a singleton so that it is evaluated once.)
CallRedLeavesAddress ==
    /\ op_out = NoCall
    /\ "malname" \in DOMAIN op_in
    /\ StrIn(op_in.malname, "RedLeaves")
    /\ \E loadp \in {patternCheck(op_in.malname, op_in.data)} :
           /\ loadp.m_conf # None
           /\ op_out' = [fn |-> "RedLeavesAddress",
                         p |-> loadp.m_conf[1],
                         ret |-> RedLeavesAddress(op_in.data, loadp.m_conf[1])]
    /\ UNCHANGED op_in
    /\ ScanUnchanged

CallHimawariAddress ==
    /\ op_out = NoCall
    /\ "malname" \in DOMAIN op_in
    /\ op_in.malname \in HimawariGroup
    /\ \E loadp \in {patternCheck(op_in.malname, op_in.data)} :
           /\ loadp.m_conf # None
           /\ op_out' = [fn |-> "HimawariAddress",
                         p |-> loadp.m_conf[1],
                         ret |-> HimawariAddress(op_in.malname, op_in.data, loadp.m_conf[1])]
    /\ UNCHANGED op_in
    /\ ScanUnchanged

NextResolve == CallRedLeavesAddress \/ CallHimawariAddress

SpecResolve == InitResolve /\ [][NextResolve]_vars

\* The anchor the backward scan from p-1 stops at: the nearest index of
\* [0, p-1] that holds an anchor opcode, if there is one.
AnchorsBefore(data, p) == {a \in 0..(p - 1) : ~NotAnchor(data[a + 1])}
NearestAnchor(data, p) == CHOOSE a \in AnchorsBefore(data, p) : \A b \in AnchorsBefore(data, p) : b <= a


\* data[i] for an index inside the window.
ByteAt(data, i) == data[i + 1]

\* The resolver produced the pointer whose four bytes, lowest first, stand at
\* offsets i .. i+3 of the window.
PointerIsLiteralAt(ret, data, i) ==
    /\ ret.raised = "none"
    /\ ret.config_addr # None
    /\ WBytes(ret.config_addr[1]) = SubSeq(data, i + 1, i + 4)

\* C5: when the backward scan stops at the nearest anchor a of [0, p-1], the
\* pointer is the little-endian literal at a+6 for C7 85, at a+3 for C7 45
\* and at a+1 for BE and BF (the literal being inside the window).
PointerByAnchorForm ==
    (op_out.fn = "RedLeavesAddress" /\ AnchorsBefore(op_in.data, op_out.p) # {}) =>
        LET data == op_in.data
            a == NearestAnchor(data, op_out.p)
        IN  /\ (ByteAt(data, a) = OpC7 /\ ByteAt(data, a + 1) = ModRM85 /\ a + 10 <= Len(data))
                  => PointerIsLiteralAt(op_out.ret, data, a + 6)
            /\ (ByteAt(data, a) = OpC7 /\ ByteAt(data, a + 1) = ModRM45)
                  => PointerIsLiteralAt(op_out.ret, data, a + 3)
            /\ ByteAt(data, a) \in {OpBE, OpBF}
                  => PointerIsLiteralAt(op_out.ret, data, a + 1)

\* The C7 85 form with its literal at a+6, resolved.
PointerByAnchorFormWitness ==
    /\ op_out.fn = "RedLeavesAddress"
    /\ op_in.data = <<OpBE, OpC7, ModRM85, 0, 0>> \o PatRedLeaves
    /\ op_out.p = 5
    /\ op_out.ret.config_addr = Some([hi |-> 255 * 256, lo |-> 19])

\* C7: when the four bytes of the pointer literal are not all inside the
\* window, no pointer is produced and nothing is raised.
PointerPastWindowIsSoft ==
    LET data == op_in.data
        Soft == op_out.ret.raised = "none" /\ op_out.ret.config_addr = None
    IN  /\ op_out.fn = "HimawariAddress" =>
              LET at == IF op_in.malname = "zark20rk" THEN op_out.p + 12 ELSE op_out.p + 6
              IN  at + 4 > Len(data) => Soft
        /\ (op_out.fn = "RedLeavesAddress" /\ AnchorsBefore(data, op_out.p) # {}) =>
              LET a == NearestAnchor(data, op_out.p)
              IN  (ByteAt(data, a) = OpC7 /\ ByteAt(data, a + 1) = ModRM85 /\ a + 10 > Len(data))
                      => Soft

\* C8: when no byte of [0, p-1] is an anchor opcode, the scan ends without a
\* pointer and without an exception, and the hit is skipped.
AnchorNotFoundIsSoft ==
    (op_out.fn = "RedLeavesAddress" /\ AnchorsBefore(op_in.data, op_out.p) = {}) =>
        /\ op_out.ret.raised = "none"
        /\ op_out.ret.config_addr = None
        /\ op_out.ret.skipped

\* C9: after the 6-byte step back from a to a-6 a pointer is decoded only if
\* a-6 is inside the window and holds an anchor opcode, and then with the
\* delta of the form found there.
StepBackIsRetested ==
    (op_out.fn = "RedLeavesAddress" /\ AnchorsBefore(op_in.data, op_out.p) # {}) =>
        LET data == op_in.data
            a == NearestAnchor(data, op_out.p)
            b == a - StepBack
        IN  (ByteAt(data, a) = OpC7 /\ ByteAt(data, a + 1) \notin {ModRM85, ModRM45}) =>
                IF b >= 0 /\ ~NotAnchor(ByteAt(data, b))
                THEN /\ (ByteAt(data, b) = OpC7 /\ ByteAt(data, b + 1) = ModRM85)
                           => PointerIsLiteralAt(op_out.ret, data, b + 6)
                     /\ (ByteAt(data, b) = OpC7 /\ ByteAt(data, b + 1) = ModRM45)
                           => PointerIsLiteralAt(op_out.ret, data, b + 3)
                     /\ ByteAt(data, b) \in {OpBE, OpBF}
                           => PointerIsLiteralAt(op_out.ret, data, b + 1)
                ELSE op_out.ret.config_addr = None

=============================================================================
